---- MODULE Spec2Model ----
(***************************************************************************)
(* Model of the tabular Q-learning trainer of src/train/train.py: the      *)
(* state encoder (cal_state), the table allocation (initialize_q_table),   *)
(* the table load (read_q_table), action selection (q_choose_number), the  *)
(* bootstrap (get_max_q) and the self-play loop with its updates           *)
(* (q_learning); and of the batch simulation of src/simul/simul.py         *)
(* (choose_number, simulate).                                              *)
(*                                                                         *)
(* Scaling.  The source fixes CARD_NUM = 7; the model runs the same code   *)
(* with a hand of CARD_NUM cards as defined below, the one bound of the    *)
(* model (spec.md treats the hand size as a parameter N and states its     *)
(* scenarios for N = 3 and N = 5).  Every expression that depends on the   *)
(* hand size is written in terms of CARD_NUM exactly as in the source.     *)
(*                                                                         *)
(* Numbers.  l_rate, d_factor and the table values are drawn from small    *)
(* integers, on which the floating-point arithmetic of the source is exact *)
(* (no product or sum below leaves the range of exactly representable      *)
(* integers).                                                              *)
(***************************************************************************)
EXTENDS Integers, Sequences, FiniteSets, TLC

\* ------------------------------------------------------------------------
\* Program constants (train.py lines 6-11)
\* ------------------------------------------------------------------------
\* the hand size: 7 at train.py line 6, scaled down here
CARD_NUM == 4

PLAYER_NUM == 2

NUM_STATES == 2 ^ (2 + 2 * CARD_NUM)

FIRST == 0

SECOND == 1

ROUND_REWARD == 1

FINAL_REWARD == 5

\* ------------------------------------------------------------------------
\* Inputs of the model (its one bound is CARD_NUM above)
\* ------------------------------------------------------------------------
\* values offered for the epochs, l_rate and d_factor arguments of q_learning.
\* One episode: the state a further episode starts from differs from this one's
\* only in the values of the table, which ReadQTable varies as well.
EpochChoices == {1}

RateChoices == {1, 2}

DiscountChoices == {2}

Players == 0 .. (PLAYER_NUM - 1)

\* ------------------------------------------------------------------------
\* Python helpers used by the source
\* ------------------------------------------------------------------------
RECURSIVE BitCount(_)
\* bin(n).count('1')
BitCount(n) == IF n = 0 THEN 0 ELSE (n % 2) + BitCount(n \div 2)

RECURSIVE TrailingZeros(_)
TrailingZeros(n) == IF n % 2 = 1 THEN 0 ELSE 1 + TrailingZeros(n \div 2)

\* bin(n).find('1'): bin(n) is '0b' followed by the digits without leading
\* zeros, so the first '1' is at index 2, or absent (-1) for '0b0'
BinFind1(n) == IF n = 0 THEN -1 ELSE 2

\* bin(n)[::-1].find('1'): the index of the lowest set bit, -1 for '0b0'
BinRevFind1(n) == IF n = 0 THEN -1 ELSE TrailingZeros(n)

\* seq.pop(index) leaves this list (index counted from 0)
Pop(seq, index) == [k \in 1 .. (Len(seq) - 1) |-> IF k <= index THEN seq[k] ELSE seq[k + 1]]

Last(seq) == seq[Len(seq)]

RECURSIVE ListGreater(_, _)
\* Python's list comparison a > b (lexicographic)
ListGreater(a, b) ==
    IF Len(a) = 0 THEN FALSE
    ELSE IF Len(b) = 0 THEN TRUE
    ELSE IF a[1] # b[1] THEN a[1] > b[1]
    ELSE ListGreater(Tail(a), Tail(b))

RECURSIVE SeqMax(_)
\* max(list) of a non-empty list
SeqMax(seq) ==
    IF Len(seq) = 1 THEN seq[1]
    ELSE LET m == SeqMax(Tail(seq)) IN IF seq[1] >= m THEN seq[1] ELSE m

\* list.index(max(list)): the first position of the maximum, counted from 0
ArgMax(seq) == (CHOOSE k \in 1 .. Len(seq) :
                   /\ seq[k] = SeqMax(seq)
                   /\ \A j \in 1 .. (k - 1) : seq[j] # SeqMax(seq)) - 1

BoolInt(b) == IF b THEN 1 ELSE 0

\* ------------------------------------------------------------------------
\* cal_state (train.py lines 100-117)
\* ------------------------------------------------------------------------
RECURSIVE SumPow(_, _)
\* sum of 2 ** (number + shift) over the list
SumPow(seq, shift) ==
    IF Len(seq) = 0 THEN 0 ELSE 2 ^ (seq[1] + shift) + SumPow(Tail(seq), shift)

\* mutant: the first-to-act flag is not shifted past the odd flag
cal_state_NoShift(nums, oppo_numbers, is_first, odd_flag) ==
    SumPow(nums, 1) + SumPow(oppo_numbers, 1 + CARD_NUM)
        + BoolInt(is_first) + BoolInt(odd_flag)

cal_state(nums, oppo_numbers, is_first, odd_flag) ==
    SumPow(nums, 1) + SumPow(oppo_numbers, 1 + CARD_NUM)
        + BoolInt(is_first) * 2 + BoolInt(odd_flag)

\* ------------------------------------------------------------------------
\* initialize_q_table (train.py lines 13-37)
\* ------------------------------------------------------------------------
first_pos(state) ==
    LET x == (state \div 4) \div (2 ^ CARD_NUM)
    IN  << 2 - BinFind1(x), CARD_NUM - BinRevFind1(x) - 1 >>

second_pos(state) ==
    LET x == (state \div 4) % (2 ^ CARD_NUM)
    IN  << 2 - BinFind1(x), CARD_NUM - BinRevFind1(x) - 1 >>

\* mutant: the size test of line 28 asks for more than four cards
Allocated_MoreThan4(state) ==
    LET number_of_one == BitCount(state \div 4)
        first_bin  == (state \div 4) \div (2 ^ CARD_NUM)
        second_bin == (state \div 4) % (2 ^ CARD_NUM)
        fp == first_pos(state)
        sp == second_pos(state)
    IN  /\ state % 4 # 3
        /\ number_of_one % 2 = 0 /\ number_of_one > 4
        /\ ~ (\/ -1 \in {fp[1], fp[2], sp[1], sp[2]}
              \/ BitCount(first_bin) # BitCount(second_bin))
        /\ ~ (fp[1] >= sp[2] \/ fp[2] <= sp[1])

\* the ids for which line 37 is reached
Allocated(state) ==
    LET number_of_one == BitCount(state \div 4)
        first_bin  == (state \div 4) \div (2 ^ CARD_NUM)
        second_bin == (state \div 4) % (2 ^ CARD_NUM)
        fp == first_pos(state)
        sp == second_pos(state)
    IN  /\ state % 4 # 3
        /\ number_of_one % 2 = 0 /\ number_of_one > 2
        /\ ~ (\/ -1 \in {fp[1], fp[2], sp[1], sp[2]}
              \/ BitCount(first_bin) # BitCount(second_bin))
        /\ ~ (fp[1] >= sp[2] \/ fp[2] <= sp[1])

initialize_q_table ==
    [state \in {s \in 0 .. (NUM_STATES - 1) : Allocated(s)} |->
        [k \in 1 .. BitCount((state \div 4) % (2 ^ CARD_NUM)) |-> 0]]

\* ------------------------------------------------------------------------
\* read_q_table (train.py lines 39-57)
\* ------------------------------------------------------------------------
\* A table file as write_q_table leaves it after an earlier training run that
\* started from initialize_q_table: one line per allocated id, with the values
\* that run had reached (here a fixed pattern of small values).
SavedFile ==
    [state \in DOMAIN initialize_q_table |->
        [k \in 1 .. Len(initialize_q_table[state]) |->
            (((state \div 4) * k + (state % 4) + k) % 5) - 2]]

\* the --input paths offered: an existing file, or a path that does not exist
Paths == {"saved", "missing"}

\* the table after read_q_table(path) on an empty table
read_q_table(path) ==
    IF path = "missing" THEN initialize_q_table ELSE SavedFile

\* ------------------------------------------------------------------------
\* State
\* ------------------------------------------------------------------------
VARIABLES
    pc,          \* position: "main", "loop", "round", "final", or a raised error
    q_table,     \* the module-level dict (train.py line 248)
    l_rate,      \* arguments of q_learning
    d_factor,
    epochs,
    episode,     \* loop variable of line 178
    scores,      \* locals of q_learning, lines 180-185
    rewards,
    numbers,
    first,
    states,
    game_over,
    round_num,   \* loop variable of line 187
    loc,         \* the locals a round assigns (lines 188-216) and the i of line 205
    won,         \* history: rounds won by each player in the current hand
    max_rows,    \* history: the ids get_max_q read for each player in the last round
    enc_in,      \* the arguments of a lone cal_state call
    enc_id,      \* and its result
    simul_num,   \* argument of simulate (simul.py line 34)
    simul_i,     \* number of iterations of the loop of simul.py line 43 begun
    wins,        \* locals of simulate, simul.py lines 42-47 (numbers and
    score,       \*   game_over are shared with q_learning's of the same name)
    r_card_num,
    round_winner,
    simul_loc,   \* the locals a round of simulate assigns (simul.py lines 50-65)
    bonus        \* history: early-stop points given to each player in the hand

simul_vars == << simul_num, simul_i, wins, score, r_card_num, round_winner,
                 simul_loc, bonus >>

vars == << pc, q_table, l_rate, d_factor, epochs, episode, scores, rewards, numbers,
           first, states, game_over, round_num, loc, won, max_rows,
                    enc_in, enc_id, simul_vars >>

NoSimulLoc ==
    [first |-> -1, second |-> -1, first_action |-> -1, second_action |-> -1,
     first_number |-> 0, second_number |-> 0]

\* simulate has not been called
NoSimul ==
    /\ simul_num = 0
    /\ simul_i = 0
    /\ wins = [p \in Players |-> 0]
    /\ score = 0
    /\ r_card_num = 0
    /\ round_winner = 0
    /\ simul_loc = NoSimulLoc
    /\ bonus = [p \in Players |-> 0]

NoLoc ==
    [first_state |-> -1, first_action |-> -1, first_q |-> 0,
     second_state |-> -1, second_action |-> -1, second_q |-> 0,
     first_number |-> 0, second_number |-> 0,
     first_next_max_q |-> 0, second_next_max_q |-> 0,
     mover |-> -1, i |-> -1]

NoInput == [nums |-> << >>, oppo_numbers |-> << >>, is_first |-> TRUE, odd_flag |-> FALSE]

Init ==
    /\ pc = "main"
    /\ q_table = << >>
    /\ l_rate \in RateChoices
    /\ d_factor \in DiscountChoices
    /\ epochs \in EpochChoices
    /\ episode = 0
    /\ scores = [p \in Players |-> 0]
    /\ rewards = [p \in Players |-> 0]
    /\ numbers = [p \in Players |-> << >>]
    /\ first = 0
    /\ states = [p \in Players |-> << >>]
    /\ game_over = FALSE
    /\ round_num = 0
    /\ loc = NoLoc
    /\ won = [p \in Players |-> 0]
    /\ max_rows = [p \in Players |-> {}]
    /\ enc_in = NoInput
    /\ enc_id = -1
    /\ NoSimul

\* ------------------------------------------------------------------------
\* __main__ (train.py lines 261-264): build or load the table
\* ------------------------------------------------------------------------
InitializeQTable ==
    /\ pc = "main"
    /\ q_table' = initialize_q_table
    /\ pc' = "loop"
    /\ UNCHANGED << l_rate, d_factor, epochs, episode, scores, rewards, numbers, first,
                    states, game_over, round_num, loc, won, max_rows,
                    enc_in, enc_id, simul_vars >>

ReadQTable ==
    /\ pc = "main"
    /\ \E path \in Paths : q_table' = read_q_table(path)
    /\ pc' = "loop"
    /\ UNCHANGED << l_rate, d_factor, epochs, episode, scores, rewards, numbers, first,
                    states, game_over, round_num, loc, won, max_rows,
                    enc_in, enc_id, simul_vars >>

\* ------------------------------------------------------------------------
\* q_learning, start of an episode (train.py lines 178-185)
\* ------------------------------------------------------------------------
StartEpisode ==
    /\ pc = "loop"
    /\ episode < epochs
    /\ scores' = [p \in Players |-> 0]
    /\ rewards' = [p \in Players |-> 0]
    /\ numbers' = [p \in Players |-> [k \in 1 .. CARD_NUM |-> k]]
    /\ \E f \in Players : first' = f
    /\ states' = [p \in Players |-> << >>]
    /\ game_over' = FALSE
    /\ round_num' = 0
    /\ loc' = NoLoc
    /\ won' = [p \in Players |-> 0]
    /\ max_rows' = [p \in Players |-> {}]
    /\ pc' = "round"
    /\ UNCHANGED << q_table, l_rate, d_factor, epochs, episode, enc_in, enc_id, simul_vars >>

\* ------------------------------------------------------------------------
\* get_max_q (train.py lines 119-136)
\* ------------------------------------------------------------------------
\* the ids whose rows get_max_q reads
get_max_q_rows(nums, oppo_numbers, is_first) ==
    IF is_first THEN {cal_state(nums, oppo_numbers, TRUE, FALSE)}
    ELSE {cal_state(nums, oppo_numbers, is_first, TRUE),
          cal_state(nums, oppo_numbers, is_first, FALSE)}

get_max_q(nums, oppo_numbers, is_first) ==
    IF is_first THEN SeqMax(q_table[cal_state(nums, oppo_numbers, TRUE, FALSE)])
    ELSE SeqMax(q_table[cal_state(nums, oppo_numbers, is_first, TRUE)]
                \o q_table[cal_state(nums, oppo_numbers, is_first, FALSE)])

\* ------------------------------------------------------------------------
\* q_choose_number (train.py lines 138-165)
\* ------------------------------------------------------------------------
\* The indices q_choose_number may return in training (epsilon > 0, soft_bound
\* = 0): a uniform draw from range(len(numbers)) with probability r_epsilon,
\* the first maximum of the row otherwise.
q_choose_number(nums, state) ==
    (0 .. (Len(nums) - 1)) \cup {ArgMax(q_table[state])}

\* ------------------------------------------------------------------------
\* q_learning, one round (train.py lines 187-237)
\* ------------------------------------------------------------------------
\* mutant: the comparison of line 206 is strict
Dominant_Strict(nums) ==
    IF nums[0][1] > Last(nums[1]) THEN 0
    ELSE IF nums[1][1] > Last(nums[0]) THEN 1
    ELSE -1

\* lines 205-206: the first i whose lowest card is not below the other hand's
\* highest card, -1 when the loop ends without a break
Dominant(nums) ==
    IF nums[0][1] >= Last(nums[1]) THEN 0
    ELSE IF nums[1][1] >= Last(nums[0]) THEN 1
    ELSE -1

\* mutant: lines 208-209 are missing
EarlyStopBonus_NoBoundary(nums, i, rnd) == CARD_NUM - rnd - 1

\* lines 207-209: what the early stop adds to scores[i]
EarlyStopBonus(nums, i, rnd) ==
    (CARD_NUM - rnd - 1) - (IF nums[i][1] = Last(nums[1 - i]) THEN 1 ELSE 0)

\* lines 219, 222: the third component of a recorded step
TDTerm(next_max_q, q) == l_rate * (d_factor * next_max_q - q)

\* lines 225-231: rewards after the round's comparison
RoundRewards(old, f, first_number, second_number) ==
    IF first_number > second_number
    THEN [old EXCEPT ![f] = ROUND_REWARD, ![1 - f] = -ROUND_REWARD]
    ELSE IF first_number < second_number
    THEN [old EXCEPT ![f] = -ROUND_REWARD, ![1 - f] = ROUND_REWARD]
    ELSE old

\* lines 225-231: scores after the round's comparison
RoundScores(old, f, first_number, second_number) ==
    IF first_number > second_number THEN [old EXCEPT ![f] = @ + 1]
    ELSE IF first_number < second_number THEN [old EXCEPT ![1 - f] = @ + 1]
    ELSE old

\* mutant: the winner of the round moves first in the next round
NextFirst_WinnerLeads(f, first_number, second_number) ==
    IF first_number > second_number THEN f
    ELSE IF first_number < second_number THEN 1 - f
    ELSE 1 - f

\* line 237: the first mover of the next round
NextFirst(f, first_number, second_number) == 1 - f

\* q_table[state][action] += delta
AddQ(q, state, action, delta) == [q EXCEPT ![state][action + 1] = @ + delta]

Raise(error) ==
    /\ pc' = error
    /\ UNCHANGED << q_table, l_rate, d_factor, epochs, episode, scores, rewards, numbers,
                    first, states, game_over, round_num, loc, won, max_rows,
                    enc_in, enc_id, simul_vars >>

Round ==
    /\ pc = "round"
    /\ LET second == 1 - first
           first_state == cal_state(numbers[first], numbers[second], TRUE, FALSE)
       IN
       IF first_state \notin DOMAIN q_table THEN Raise("KeyError")
       ELSE \E first_action \in q_choose_number(numbers[first], first_state) :
       IF first_action >= Len(q_table[first_state]) THEN Raise("IndexError")
       ELSE
       LET first_q == q_table[first_state][first_action + 1]
           odd_flag == numbers[first][first_action + 1] % 2 # 0
           second_state == cal_state(numbers[second], numbers[first], FALSE, odd_flag)
       IN
       IF second_state \notin DOMAIN q_table THEN Raise("KeyError")
       ELSE \E second_action \in q_choose_number(numbers[second], second_state) :
       IF second_action >= Len(q_table[second_state]) THEN Raise("IndexError")
       ELSE
       LET second_q == q_table[second_state][second_action + 1]
           first_number == numbers[first][first_action + 1]
           second_number == numbers[second][second_action + 1]
           popped == [numbers EXCEPT ![first] = Pop(@, first_action),
                                     ![second] = Pop(@, second_action)]
       IN
       \* line 206 indexes both hands
       IF Len(popped[0]) = 0 \/ Len(popped[1]) = 0 THEN Raise("IndexError")
       ELSE
       LET i == Dominant(popped)
           over == i # -1
           stopped == IF over
                      THEN [scores EXCEPT ![i] = @ + EarlyStopBonus(popped, i, round_num)]
                      ELSE scores
           first_rows == IF over THEN {}
                         ELSE get_max_q_rows(popped[first], popped[second], FALSE)
           second_rows == IF over THEN {}
                          ELSE get_max_q_rows(popped[second], popped[first], TRUE)
       IN
       IF ~ ((first_rows \cup second_rows) \subseteq DOMAIN q_table) THEN Raise("KeyError")
       ELSE
       LET first_next_max_q == IF over THEN 0
                               ELSE get_max_q(popped[first], popped[second], FALSE)
           second_next_max_q == IF over THEN 0
                                ELSE get_max_q(popped[second], popped[first], TRUE)
           first_step == << first_state, first_action, TDTerm(first_next_max_q, first_q) >>
           second_step == << second_state, second_action, TDTerm(second_next_max_q, second_q) >>
           new_rewards == RoundRewards(rewards, first, first_number, second_number)
           q1 == AddQ(q_table, first_state, first_action,
                      l_rate * new_rewards[first] + first_step[3])
           q2 == AddQ(q1, second_state, second_action,
                      l_rate * new_rewards[second] + second_step[3])
       IN
           /\ numbers' = popped
           /\ game_over' = over
           /\ states' = [states EXCEPT ![first] = Append(@, first_step),
                                       ![second] = Append(@, second_step)]
           /\ rewards' = new_rewards
           /\ scores' = RoundScores(stopped, first, first_number, second_number)
           /\ q_table' = q2
           /\ loc' = [first_state |-> first_state, first_action |-> first_action,
                      first_q |-> first_q,
                      second_state |-> second_state, second_action |-> second_action,
                      second_q |-> second_q,
                      first_number |-> first_number, second_number |-> second_number,
                      first_next_max_q |-> first_next_max_q,
                      second_next_max_q |-> second_next_max_q,
                      mover |-> first, i |-> i]
           /\ won' = RoundScores(won, first, first_number, second_number)
           /\ max_rows' = [p \in Players |-> IF p = first THEN first_rows ELSE second_rows]
           /\ IF over
              THEN /\ pc' = "final"
                   /\ UNCHANGED << first, round_num >>
              ELSE /\ first' = NextFirst(first, first_number, second_number)
                   /\ round_num' = round_num + 1
                   /\ pc' = IF round_num + 1 < CARD_NUM THEN "round" ELSE "final"
           /\ UNCHANGED << l_rate, d_factor, epochs, episode, enc_in, enc_id, simul_vars >>

\* ------------------------------------------------------------------------
\* q_learning, end of the hand (train.py lines 239-246)
\* ------------------------------------------------------------------------
\* lines 239-240
FinalScores(old, nums) ==
    [old EXCEPT ![FIRST] = @ + BoolInt(ListGreater(nums[FIRST], nums[SECOND])),
                ![SECOND] = @ + BoolInt(ListGreater(nums[SECOND], nums[FIRST]))]

\* mutant: a flat bonus or penalty, without the learning rate and the TD term
FinalDelta_Flat(is_winner, coordinate) ==
    IF is_winner THEN FINAL_REWARD ELSE - FINAL_REWARD

\* lines 244, 246: what the end-of-hand pass adds for one recorded step
FinalDelta(is_winner, coordinate) ==
    (IF is_winner THEN l_rate * FINAL_REWARD ELSE - l_rate * FINAL_REWARD) + coordinate[3]

RECURSIVE ApplySteps(_, _, _)
\* lines 243-246: one of the two loops over a trajectory
ApplySteps(q, steps, is_winner) ==
    IF Len(steps) = 0 THEN q
    ELSE ApplySteps(AddQ(q, steps[1][1], steps[1][2], FinalDelta(is_winner, steps[1])),
                    Tail(steps), is_winner)

EndOfHand ==
    /\ pc = "final"
    /\ LET final == FinalScores(scores, numbers)
       IN  /\ scores' = final
           /\ IF final[FIRST] # final[SECOND]
              THEN LET winner == IF final[FIRST] > final[SECOND] THEN FIRST ELSE SECOND
                   IN  q_table' = ApplySteps(ApplySteps(q_table, states[winner], TRUE),
                                             states[1 - winner], FALSE)
              ELSE UNCHANGED q_table
    /\ episode' = episode + 1
    /\ pc' = "loop"
    /\ UNCHANGED << l_rate, d_factor, epochs, rewards, numbers, first, states, game_over,
                    round_num, loc, won, max_rows,
                    enc_in, enc_id, simul_vars >>

Next ==
    \/ InitializeQTable
    \/ ReadQTable
    \/ StartEpisode
    \/ Round
    \/ EndOfHand

Spec == Init /\ [][Next]_vars

\* ------------------------------------------------------------------------
\* A lone call of cal_state, for the properties of the encoder
\* ------------------------------------------------------------------------
RECURSIVE SortedSeq(_)
\* the ascending list of a set of cards
SortedSeq(S) ==
    IF S = {} THEN << >>
    ELSE LET m == CHOOSE x \in S : \A y \in S : x <= y
         IN  << m >> \o SortedSeq(S \ {m})

Hands == {SortedSeq(S) : S \in SUBSET (1 .. CARD_NUM)}

\* callers pass odd_flag = False whenever is_first is True
EncInputs ==
    {[nums |-> a, oppo_numbers |-> b, is_first |-> fo[1], odd_flag |-> fo[2]] :
        a \in Hands, b \in Hands,
        fo \in {<< TRUE, FALSE >>, << FALSE, TRUE >>, << FALSE, FALSE >>}}

InitEnc ==
    /\ pc = "encode"
    /\ enc_in \in EncInputs
    /\ enc_id = -1
    /\ q_table = << >>
    /\ l_rate = 1
    /\ d_factor = 1
    /\ epochs \in EpochChoices
    /\ episode = 0
    /\ scores = [p \in Players |-> 0]
    /\ rewards = [p \in Players |-> 0]
    /\ numbers = [p \in Players |-> << >>]
    /\ first = 0
    /\ states = [p \in Players |-> << >>]
    /\ game_over = FALSE
    /\ round_num = 0
    /\ loc = NoLoc
    /\ won = [p \in Players |-> 0]
    /\ max_rows = [p \in Players |-> {}]
    /\ NoSimul

Encode ==
    /\ pc = "encode"
    /\ enc_id' = cal_state(enc_in.nums, enc_in.oppo_numbers, enc_in.is_first, enc_in.odd_flag)
    /\ pc' = "encoded"
    /\ UNCHANGED << q_table, l_rate, d_factor, epochs, episode, scores, rewards, numbers,
                    first, states, game_over, round_num, loc, won, max_rows, enc_in,
                    simul_vars >>

NextEnc == Encode

SpecEnc == InitEnc /\ [][NextEnc]_vars

\* ------------------------------------------------------------------------
\* simul.py: the batch simulation of a trained against an untrained player
\* ------------------------------------------------------------------------
DEFAULT == 0

TRAINED == 1

\* values offered for the --number argument
SimulChoices == {1, 2}

\* choose_number (simul.py lines 10-32): the indices q_choose_number may return
\* when called with epsilon = 0 (trained) or 1 (untrained) and soft_bound =
\* CARD_NUM / 2.  np.random.random() lies in [0, 1), so the untrained player
\* always draws uniformly from range(len(numbers)) and the trained player
\* never does; the trained player samples from the softmax of the row, which
\* gives every index a positive probability, while len(numbers) > CARD_NUM / 2
\* and takes the first maximum of the row otherwise.
choose_number(nums, oppo_numbers, is_trained, is_first, odd_flag) ==
    LET state == cal_state(nums, oppo_numbers, is_first, odd_flag)
    IN  IF ~ is_trained THEN 0 .. (Len(nums) - 1)
        ELSE IF CARD_NUM > 0 /\ 2 * Len(nums) > CARD_NUM
             THEN 0 .. (Len(q_table[state]) - 1)
             ELSE {ArgMax(q_table[state])}

\* simul.py lines 67-75: << game_over, the change of score >> once both cards
\* are removed; r is the decremented r_card_num
SimulStop(nums, f, r) ==
    IF r = 1 /\ nums[f] = nums[1 - f] THEN << TRUE, 0 >>
    ELSE IF nums[f][1] > Last(nums[1 - f]) THEN << TRUE, (2 * f - 1) * r >>
    ELSE IF nums[1 - f][1] > Last(nums[f]) THEN << TRUE, (2 * (1 - f) - 1) * r >>
    ELSE << FALSE, 0 >>

\* simul.py lines 77-82: the change of score for the revealed numbers
SimulRoundScore(f, first_number, second_number) ==
    IF first_number > second_number THEN -1
    ELSE IF first_number < second_number THEN 1
    ELSE 0

\* simul.py lines 77-82: round_winner after the round
SimulRoundWinner(old, f, first_number, second_number) ==
    IF first_number > second_number THEN f
    ELSE IF first_number < second_number THEN 1 - f
    ELSE old

\* the state before simul.py line 100
InitSimul ==
    /\ pc = "simul_main"
    /\ q_table = << >>
    /\ simul_num \in SimulChoices
    /\ simul_i = 0
    /\ wins = [p \in Players |-> 0]
    /\ score = 0
    /\ r_card_num = 0
    /\ round_winner = 0
    /\ simul_loc = NoSimulLoc
    /\ bonus = [p \in Players |-> 0]
    /\ l_rate = 1
    /\ d_factor = 1
    /\ epochs \in EpochChoices
    /\ episode = 0
    /\ scores = [p \in Players |-> 0]
    /\ rewards = [p \in Players |-> 0]
    /\ numbers = [p \in Players |-> << >>]
    /\ first = 0
    /\ states = [p \in Players |-> << >>]
    /\ game_over = FALSE
    /\ round_num = 0
    /\ loc = NoLoc
    /\ won = [p \in Players |-> 0]
    /\ max_rows = [p \in Players |-> {}]
    /\ enc_in = NoInput
    /\ enc_id = -1

\* the variables of q_learning and of the lone cal_state call, which simul.py
\* never touches
train_vars == << l_rate, d_factor, epochs, episode, scores, rewards, first, states,
                 round_num, loc, max_rows, enc_in, enc_id >>

\* simul.py line 100, then line 42
SimulReadQTable ==
    /\ pc = "simul_main"
    /\ \E path \in Paths : q_table' = read_q_table(path)
    /\ wins' = [p \in Players |-> 0]
    /\ pc' = "simulate"
    /\ UNCHANGED << simul_num, simul_i, score, r_card_num, round_winner, simul_loc,
                    bonus, numbers, game_over, won, train_vars >>

\* simul.py lines 43-47
SimulStartHand ==
    /\ pc = "simulate"
    /\ simul_i < simul_num
    /\ simul_i' = simul_i + 1
    /\ score' = 0
    /\ r_card_num' = CARD_NUM
    /\ numbers' = [p \in Players |-> [k \in 1 .. CARD_NUM |-> k]]
    /\ \E w \in Players : round_winner' = w
    /\ game_over' = FALSE
    /\ simul_loc' = NoSimulLoc
    /\ won' = [p \in Players |-> 0]
    /\ bonus' = [p \in Players |-> 0]
    /\ pc' = "simul_round"
    /\ UNCHANGED << q_table, simul_num, wins, train_vars >>

SimulRaise(error) ==
    /\ pc' = error
    /\ UNCHANGED << q_table, simul_num, simul_i, wins, score, r_card_num,
                    round_winner, simul_loc, bonus, numbers, game_over, won,
                    train_vars >>

\* simul.py lines 49-85: one iteration of the while loop
SimulRound ==
    /\ pc = "simul_round"
    /\ LET f == round_winner
           s == 1 - round_winner
           r == r_card_num - 1
           first_state == cal_state(numbers[f], numbers[s], TRUE, FALSE)
       IN  IF first_state \notin DOMAIN q_table THEN SimulRaise("KeyError")
           ELSE
           \E first_action \in choose_number(numbers[f], numbers[s], f = TRAINED,
                                             TRUE, FALSE) :
             LET odd_flag == numbers[f][first_action + 1] % 2 # 0
                 second_state == cal_state(numbers[s], numbers[f], FALSE, odd_flag)
             IN  IF second_state \notin DOMAIN q_table THEN SimulRaise("KeyError")
                 ELSE
                 \E second_action \in choose_number(numbers[s], numbers[f],
                                                    s = TRAINED, FALSE, odd_flag) :
                   LET first_number == numbers[f][first_action + 1]
                       second_number == numbers[s][second_action + 1]
                       nums == [p \in Players |->
                                  IF p = f THEN Pop(numbers[f], first_action)
                                  ELSE Pop(numbers[s], second_action)]
                   IN  IF ~ (r = 1 /\ nums[f] = nums[s]) /\ Len(nums[f]) = 0
                       THEN SimulRaise("IndexError")
                       ELSE
                       LET stop == SimulStop(nums, f, r)
                       IN  /\ r_card_num' = r
                           /\ numbers' = nums
                           /\ game_over' = stop[1]
                           /\ score' = score + stop[2]
                                         + SimulRoundScore(f, first_number, second_number)
                           /\ round_winner' = SimulRoundWinner(round_winner, f,
                                                               first_number, second_number)
                           /\ simul_loc' = [first |-> f, second |-> s,
                                            first_action |-> first_action,
                                            second_action |-> second_action,
                                            first_number |-> first_number,
                                            second_number |-> second_number]
                           /\ won' = [p \in Players |->
                                        won[p] + BoolInt(
                                          \/ p = f /\ first_number > second_number
                                          \/ p = s /\ second_number > first_number)]
                           /\ bonus' = [p \in Players |->
                                          bonus[p] + BoolInt(
                                            \/ p = TRAINED /\ stop[2] > 0
                                            \/ p = DEFAULT /\ stop[2] < 0)
                                          * (IF stop[2] > 0 THEN stop[2] ELSE 0 - stop[2])]
                           /\ pc' = IF stop[1] THEN "simul_count" ELSE "simul_round"
                           /\ UNCHANGED << q_table, simul_num, simul_i, wins, train_vars >>

\* simul.py lines 87-88
SimulCount ==
    /\ pc = "simul_count"
    /\ wins' = IF score # 0
               THEN [wins EXCEPT ![BoolInt(score > 0)] = @ + 1]
               ELSE wins
    /\ pc' = "simulate"
    /\ UNCHANGED << q_table, simul_num, simul_i, score, r_card_num, round_winner,
                    simul_loc, bonus, numbers, game_over, won, train_vars >>

NextSimul ==
    \/ SimulReadQTable
    \/ SimulStartHand
    \/ SimulRound
    \/ SimulCount

SpecSimul == InitSimul /\ [][NextSimul]_vars

\* ------------------------------------------------------------------------
\* Properties
\* ------------------------------------------------------------------------
\* a round was played by this step
RoundTaken == pc = "round" /\ pc' \in {"round", "final"}

\* the hand has been scored (lines 239-246 have run)
HandScored == pc = "loop" /\ episode > 0

\* the change of one table entry over a step
DeltaQ(state, action) == q_table'[state][action + 1] - q_table[state][action + 1]

\* C1: whenever a round has a winner and the hand continues, the winner of
\* the round is the first mover of the next round.
C1_WinnerLeads ==
    [][(pc = "round" /\ pc' = "round") =>
          /\ loc'.first_number > loc'.second_number => first' = first
          /\ loc'.first_number < loc'.second_number => first' = 1 - first]_vars

\* C2: the reward used in a round's table update is +1 for the round's winner,
\* -1 for its loser and 0 for both sides of a tied round, whatever happened in
\* earlier rounds: each entry changes by l_rate * reward plus
\* l_rate * (d_factor * next_state_max_value - old_value).
C2_RoundReward ==
    [][RoundTaken =>
          LET r == IF loc'.first_number > loc'.second_number THEN 1
                   ELSE IF loc'.first_number < loc'.second_number THEN -1
                   ELSE 0
          IN  /\ DeltaQ(loc'.first_state, loc'.first_action)
                   = l_rate * r
                     + l_rate * (d_factor * loc'.first_next_max_q - loc'.first_q)
              /\ DeltaQ(loc'.second_state, loc'.second_action)
                   = l_rate * (0 - r)
                     + l_rate * (d_factor * loc'.second_next_max_q - loc'.second_q)]_vars

\* the sign of the hand's outcome for player p, from the final scores
Outcome(sc, p) ==
    IF sc[p] > sc[1 - p] THEN 1 ELSE IF sc[p] < sc[1 - p] THEN -1 ELSE 0

\* C3 as stated: the end-of-hand pass changes the entry of every recorded step
\* by exactly +final_reward (winner), -final_reward (loser), 0 (aggregate tie).
C3_FlatShaping ==
    [][(pc = "final" /\ pc' = "loop") =>
          \A p \in Players : \A k \in 1 .. Len(states[p]) :
              DeltaQ(states[p][k][1], states[p][k][2])
                  = Outcome(scores', p) * FINAL_REWARD]_vars

\* C3 amended: the end-of-hand pass changes the entry of every recorded step
\* by l_rate * final_reward plus the step's recorded TD term for the winner,
\* by -l_rate * final_reward plus that term for the loser, and not at all on
\* an aggregate tie.
C3_ScaledShaping ==
    [][(pc = "final" /\ pc' = "loop") =>
          \A p \in Players : \A k \in 1 .. Len(states[p]) :
              DeltaQ(states[p][k][1], states[p][k][2])
                  = IF Outcome(scores', p) = 0 THEN 0
                    ELSE Outcome(scores', p) * l_rate * FINAL_REWARD
                         + states[p][k][3]]_vars

\* C3 witness: a hand scored with a winner, a learning rate other than 1 and
\* a recorded step whose TD term is not zero
C3_Witness ==
    /\ HandScored
    /\ scores[FIRST] # scores[SECOND]
    /\ l_rate # 1
    /\ \E p \in Players : \E k \in 1 .. Len(states[p]) : states[p][k][3] # 0

\* rounds of the hand not played when it stopped
Unplayed == CARD_NUM - (round_num + 1)

\* 1 when the dominant side's lowest card equals the other side's highest
BoundaryEqual(i) == IF numbers[i][1] = Last(numbers[1 - i]) THEN 1 ELSE 0

\* C4: when the early stop ends a hand, the dominant side's final score is
\* its round wins plus the unplayed rounds, minus 1 if the boundary cards are
\* equal, and the other side's final score is its round wins.
C4_EarlyStopScore ==
    (HandScored /\ game_over) =>
        /\ scores[loc.i] = won[loc.i] + Unplayed - BoundaryEqual(loc.i)
        /\ scores[1 - loc.i] = won[1 - loc.i]

\* C5: no lookup fails: every id encoded by q_choose_number and every row read
\* by get_max_q is in the table, and the chosen index is within the row; the
\* table keeps the ids initialize_q_table gave it, so this holds hand after hand.
C5_LookupsPresent ==
    /\ pc \notin {"KeyError", "IndexError"}
    /\ pc # "main" => DOMAIN q_table = DOMAIN initialize_q_table
    /\ loc.mover # -1 =>
          /\ {loc.first_state, loc.second_state} \subseteq DOMAIN q_table
          /\ loc.first_action < Len(q_table[loc.first_state])
          /\ loc.second_action < Len(q_table[loc.second_state])
          /\ \A p \in Players : max_rows[p] \subseteq DOMAIN q_table

\* C5 witness: a hand reached its third round on a table with the ids of
\* initialize_q_table, with rows read by get_max_q for both sides
C5_Witness ==
    /\ pc = "round" /\ round_num = 2
    /\ \A p \in Players : max_rows[p] # {}
    /\ DOMAIN q_table = DOMAIN initialize_q_table

OwnMask(id) == (id \div 4) % (2 ^ CARD_NUM)

OppoMask(id) == (id \div 4) \div (2 ^ CARD_NUM)

LowCard(mask) == TrailingZeros(mask) + 1

RECURSIVE HighCard(_)
HighCard(mask) == IF mask = 0 THEN 0 ELSE 1 + HighCard(mask \div 2)

\* C6: after initialize_q_table no allocated id has one hand's lowest card
\* above the other hand's highest card, low-order bits equal to 3, or hands
\* of unequal size.
C6_OnlyReachable ==
    (pc = "loop" /\ episode = 0) =>
        \A id \in DOMAIN q_table :
            /\ id % 4 # 3
            /\ BitCount(OwnMask(id)) = BitCount(OppoMask(id))
            /\ LowCard(OwnMask(id)) <= HighCard(OppoMask(id))
            /\ LowCard(OppoMask(id)) <= HighCard(OwnMask(id))

\* C7: cal_state is injective on its inputs, first-mover ids are 2 modulo 4
\* and second-mover ids are 0 or 1 modulo 4.
C7_Injective ==
    pc = "encoded" =>
        /\ \A y \in EncInputs :
              cal_state(y.nums, y.oppo_numbers, y.is_first, y.odd_flag) = enc_id
                  => y = enc_in
        /\ enc_in.is_first => enc_id % 4 = 2
        /\ ~ enc_in.is_first => enc_id % 4 \in {0, 1}

\* C7 witness: a second-mover input with the odd flag set has been encoded
C7_Witness ==
    /\ pc = "encoded"
    /\ ~ enc_in.is_first /\ enc_in.odd_flag
    /\ enc_in.nums = << 1, 3 >> /\ enc_in.oppo_numbers = << 2, 3, 4 >>

\* the points the early stop awarded to the dominant side i
StopBonus(i) == Unplayed - BoundaryEqual(i)

\* C8 as stated: a hand ends in an aggregate tie only if both sides won the
\* same number of rounds and the early stop awarded no bonus point.
C8_TieOnlyWithoutBonus ==
    (HandScored /\ scores[FIRST] = scores[SECOND]) =>
        /\ won[FIRST] = won[SECOND]
        /\ game_over => StopBonus(loc.i) = 0

\* C8 amended: a hand ends in an aggregate tie only if the side the early
\* stop found dominant trails in round wins by exactly the points it is
\* awarded at the end: its early-stop bonus, plus one point unless the two
\* remaining hands are equal.
C8_TieOnlyIfBonusCancels ==
    (HandScored /\ scores[FIRST] = scores[SECOND]) =>
        /\ game_over
        /\ won[1 - loc.i] - won[loc.i]
             = StopBonus(loc.i)
               + (IF numbers[loc.i] = numbers[1 - loc.i] THEN 0 ELSE 1)

\* C8 witness: an aggregate tie of a hand in which the sides won different
\* numbers of rounds
C8_Witness ==
    /\ HandScored
    /\ scores[FIRST] = scores[SECOND]
    /\ won[FIRST] # won[SECOND]

\* the values held by the rows of a set of ids
RowValues(q, rows) == UNION {{q[id][k] : k \in 1 .. Len(q[id])} : id \in rows}

\* the greatest of a non-empty set of values
SetMax(S) == CHOOSE v \in S : \A w \in S : v >= w

\* C9: when a hand continues after a round, the bootstrap value of each side
\* is the maximum over the rows get_max_q read for it, the state id that side
\* encodes in the next round is one of those rows, and when the hand ends at
\* a round the bootstrap value is 0 for both sides.
C9_BootstrapNextState ==
    [][RoundTaken =>
          /\ round_num > 0 =>
                /\ loc'.first_state \in max_rows[first]
                /\ loc'.second_state \in max_rows[1 - first]
          /\ game_over' =>
                loc'.first_next_max_q = 0 /\ loc'.second_next_max_q = 0
          /\ ~ game_over' =>
                /\ loc'.first_next_max_q = SetMax(RowValues(q_table, max_rows'[first]))
                /\ loc'.second_next_max_q = SetMax(RowValues(q_table, max_rows'[1 - first]))]_vars

\* C9 witness: a later round of a hand that continued, whose mover encoded its
\* state after a bootstrap that was not zero
C9_Witness ==
    /\ pc = "round" /\ round_num = 2
    /\ loc.first_next_max_q # 0 /\ loc.second_next_max_q # 0
    /\ \A p \in Players : max_rows[p] # {}

\* a list is ascending without duplicates, with cards of [1, CARD_NUM]
IsHand(seq) ==
    /\ \A k \in 1 .. Len(seq) : seq[k] \in 1 .. CARD_NUM
    /\ \A k \in 1 .. (Len(seq) - 1) : seq[k] < seq[k + 1]

C10_Shape ==
    /\ pc \notin {"KeyError", "IndexError"}
    /\ pc \in {"round", "final"} =>
          /\ IsHand(numbers[FIRST]) /\ IsHand(numbers[SECOND])
          /\ Len(numbers[FIRST]) = Len(numbers[SECOND])
          /\ round_num <= CARD_NUM - 2
    /\ pc = "round" =>
          /\ Len(numbers[FIRST]) = CARD_NUM - round_num
          /\ Len(numbers[FIRST]) >= 2
    /\ pc = "final" => game_over /\ Len(numbers[FIRST]) >= 1

\* C10: every hand terminates, and through the early stop: each round either
\* ends the hand by the early stop or starts the next round with one card
\* fewer a side, no round starts with fewer than two cards a side, at most
\* CARD_NUM - 1 rounds are played, and both hands stay ascending,
\* duplicate-free subsets of [1, CARD_NUM] of equal size at every round boundary.
C10_HandTerminates ==
    /\ [] C10_Shape
    /\ [][pc = "round" =>
             \/ pc' = "final" /\ game_over'
             \/ /\ pc' = "round" /\ ~ game_over'
                /\ round_num' = round_num + 1
                /\ Len(numbers'[FIRST]) = Len(numbers[FIRST]) - 1]_vars

\* C10 witness: a hand that ended after CARD_NUM - 1 rounds with one card a side
C10_Witness ==
    /\ HandScored
    /\ round_num = CARD_NUM - 2
    /\ Len(numbers[FIRST]) = 1 /\ Len(numbers[SECOND]) = 1

\* a round of simulate was played by this step
SimulRoundTaken == pc = "simul_round" /\ pc' \in {"simul_round", "simul_count"}

\* the player who revealed the higher number in the round just played, -1 on
\* a tie
HigherPlayer(l) ==
    IF l.first_number > l.second_number THEN l.first
    ELSE IF l.first_number < l.second_number THEN l.second
    ELSE -1

\* the move of the aggregate score that favours player p: line 88 counts a
\* positive score for player 1 and a negative score for player 0
Favour(p) == IF p = -1 THEN 0 ELSE 2 * p - 1

\* round wins plus early-stop bonus of player p in the current hand
SimulTotal(p) == won[p] + bonus[p]

\* C11: in simulate, every round moves the aggregate score by one point in
\* favour of the player who revealed the higher number (not at all on a tied
\* round), apart from the early-stop points of that round, whichever player
\* acted first; and at hand end the win is counted for the player whose round
\* wins plus early-stop bonus are greater, for nobody when they are equal.
C11_ScoreFavoursHigherNumber ==
    [][/\ SimulRoundTaken =>
            score' - score = Favour(HigherPlayer(simul_loc'))
                             + (bonus'[TRAINED] - bonus[TRAINED])
                             - (bonus'[DEFAULT] - bonus[DEFAULT])
       /\ (pc = "simul_count" /\ pc' = "simulate") =>
            wins' = IF SimulTotal(TRAINED) > SimulTotal(DEFAULT)
                    THEN [wins EXCEPT ![TRAINED] = @ + 1]
                    ELSE IF SimulTotal(DEFAULT) > SimulTotal(TRAINED)
                    THEN [wins EXCEPT ![DEFAULT] = @ + 1]
                    ELSE wins]_vars
====
